---- MODULE Spec2Model ----
(***************************************************************************)
(* A model of the nmap traceroute wrapper: the hop and scan-result data    *)
(* model, the output parser, the scan orchestrator and the realtime        *)
(* monitor (interval loop) with its caller/display thread.                 *)
(*                                                                         *)
(* Text is modelled line by line.  A line is a record that carries what    *)
(* the parser's regular expressions and string tests read from it; the     *)
(* concrete text every line value stands for is given next to it.          *)
(* An exception is modelled as the value Raise(..) returned in place of a  *)
(* result, and every caller propagates or catches it as the code does.     *)
(***************************************************************************)
EXTENDS Integers, Sequences, FiniteSets, TLC

VARIABLES
    output,     \* parser input: the raw tool text, a sequence of lines, or NoneText
    pres,       \* what parse_nmap_output / scan_target returned for it (or NotRun)
    sr,         \* a ScanResult object under construction / append (models/scan_result.py)
    req,        \* the scan_target call that produced pres: its arguments and what the process did
    \* RealtimeMonitor (core/realtime_monitor.py)
    is_running, stopping, scanning_in_progress,
    stats,              \* MonitorStats
    history,            \* deque(maxlen=max_history) of results
    current_result,
    monitor_thread,     \* the Thread object of the last start, 0 for None
    on_scan_complete,   \* whether a per-scan callback is set
    thr,                \* the periodic activities (threads running _monitor_loop)
    caller,             \* the caller/display thread: where it is, and ctrl_c_count
    clock,              \* the number of scans started so far
    hlog,               \* history variable: the result of every completed scan, in completion order
    last                \* history variable: whether the last start()/stop() call found nothing to do

scanVars == <<output, pres, sr, req>>
flagVars == <<is_running, stopping, scanning_in_progress>>
dataVars == <<stats, history, current_result>>
monVars == <<is_running, stopping, scanning_in_progress, stats, history, current_result, monitor_thread, on_scan_complete, thr, caller, clock, hlog, last>>
vars == <<scanVars, monVars>>

-----------------------------------------------------------------------------
(* Bounds of the model *)

MaxLines == 3       \* longest raw text, in lines
MaxHopNo == 2       \* largest hop number written in a text line
MaxHops == 3        \* longest hop list built through add_hop
MaxScanLines == 2   \* longest stdout handed to scan_target
MaxDuration == 1    \* longest measured duration, in whole seconds
MaxThreads == 2     \* accepted start() calls, each spawning one thread
MaxScans == 3       \* scans started in one run of the monitor model
MaxHistory == 2     \* the max_history the monitor is constructed with
MaxParts == 3       \* comma-separated parts of a port string
MaxFill == 3        \* parsed hops handed to _fill_missing_hops
MaxTargets == 2     \* targets handed to scan_multiple_targets
MaxStatScans == 3   \* _update_stats calls in one run of the statistics model

-----------------------------------------------------------------------------
(* Python values *)

NoneStr == "None"           \* None where a string is expected
NoneRtt == -1               \* None where rtt_ms (a float) is expected
NoneDuration == -1          \* None where scan_duration is expected
NoneText == <<[k |-> "NotAString", n |-> 0]>>   \* output=None

\* the target, port and protocol asked for
Target == "8.8.8.8"
Port == 80
Protocol == "tcp"

\* every fallible operation returns a record: a value, or Raise(e)
Raise(e) == [exc |-> e]
IsRaise(x) == "exc" \in DOMAIN x
Ok(hops) == [hops |-> hops]             \* a returned List[HopData]
NoHop == [none |-> TRUE]    \* _parse_hop_line returning None
IsHop(x) == "hop_number" \in DOMAIN x

RECURSIVE SeqMax(_)
SeqMax(s) == IF Len(s) = 1 THEN s[1]
             ELSE LET m == SeqMax(Tail(s)) IN IF s[1] > m THEN s[1] ELSE m

-----------------------------------------------------------------------------
(* models/hop_data.py *)

\* a mutant of HopData: __post_init__ validates nothing
HopDataUnchecked(hop_number, ip_address, hostname, rtt_ms, status) ==
    [hop_number |-> hop_number, ip_address |-> ip_address,
     hostname |-> hostname, rtt_ms |-> rtt_ms, status |-> status]

\* HopData(...) with __post_init__ validation: raises ValueError
HopData(hop_number, ip_address, hostname, rtt_ms, status) ==
    IF hop_number < 1 THEN Raise("ValueError")
    ELSE IF ip_address = "" THEN Raise("ValueError")
    ELSE [hop_number |-> hop_number, ip_address |-> ip_address,
          hostname |-> hostname, rtt_ms |-> rtt_ms, status |-> status]

-----------------------------------------------------------------------------
(* models/scan_result.py *)

\* ScanResult.__post_init__
PostInit(r) ==
    LET r1 == [r EXCEPT !.total_hops = Len(r.hops)]
    IN IF r1.hops # <<>>
       THEN LET last_hop == r1.hops[Len(r1.hops)]
            IN [r1 EXCEPT !.target_reached =
                   (last_hop.ip_address = r1.target \/ last_hop.status = "success")]
       ELSE r1

\* ScanResult(target, port, protocol, hops=...)
ScanResult(target, port, protocol, hops) ==
    PostInit([target |-> target, port |-> port, protocol |-> protocol,
              hops |-> hops, target_reached |-> FALSE, total_hops |-> 0,
              scan_duration |-> NoneDuration])

\* ScanResult.add_hop
add_hop(r, hop) ==
    LET r1 == [r EXCEPT !.hops = Append(@, hop)]
    IN [r1 EXCEPT !.total_hops = Len(r1.hops)]

-----------------------------------------------------------------------------
(* utils/result_parser.py *)

\* What a hop line's remainder (group 2 of the hop regex) holds:
\*   raw          the text itself
\*   timeoutWord  'timeout' in hop_info.lower()
\*   ellipsis     hop_info.startswith('...')
\*   endHop       int(hop_info.replace('...', '').strip()), -1 when that raises ValueError
\*   ip           first match of \b(?:\d{1,3}\.){3}\d{1,3}\b, "" when none
\*   rtt          float of the first match of (\d+(?:\.\d+)?)\s*ms, NoneRtt when none
\*   host         first hostname match in the cleaned text, NoneStr when none
Info(raw, timeoutWord, ellipsis, endHop, ip, rtt, host) ==
    [raw |-> raw, timeoutWord |-> timeoutWord, ellipsis |-> ellipsis,
     endHop |-> endHop, ip |-> ip, rtt |-> rtt, host |-> host]

InfoStar    == Info("*", FALSE, FALSE, -1, "", NoneRtt, NoneStr)
InfoTimeout == Info("Request Timeout", TRUE, FALSE, -1, "", NoneRtt, NoneStr)
InfoDots    == Info("... 5", FALSE, TRUE, 5, "", NoneRtt, NoneStr)
InfoDotsBad == Info("... x", FALSE, TRUE, -1, "", NoneRtt, NoneStr)
InfoIpRtt   == Info("10.00 ms 10.0.0.1", FALSE, FALSE, -1, "10.0.0.1", 10, NoneStr)
InfoIp      == Info("10.0.0.1", FALSE, FALSE, -1, "10.0.0.1", NoneRtt, NoneStr)
InfoRtt     == Info("10.00 ms", FALSE, FALSE, -1, "", 10, NoneStr)
InfoTarget  == Info("20.00 ms 8.8.8.8", FALSE, FALSE, -1, "8.8.8.8", 20, NoneStr)

HopInfos == {InfoStar, InfoTimeout, InfoDots, InfoDotsBad, InfoIpRtt, InfoIp,
             InfoRtt, InfoTarget}

\* The lines of a raw text
Line(k) == [k |-> k, n |-> 0, info |-> InfoStar]
BlankLine  == Line("blank")       \* ""
HeaderLine == Line("TRACEROUTE")  \* "TRACEROUTE (using port 80/tcp)"
HopRttLine == Line("HOP RTT")     \* "HOP RTT     ADDRESS"
NmapLine   == Line("Nmap")        \* "Nmap done: 1 IP address (1 host up)"
OtherLine  == Line("other")       \* "Host is up (0.010s latency)."
HopLine(n, info) == [k |-> "hop", n |-> n, info |-> info]   \* "<n>   <info.raw>"

\* _extract_hop_details: (ip_address, rtt_ms, hostname)
ExtractHopDetails(hop_info) ==
    <<hop_info.ip, hop_info.rtt, hop_info.host>>

\* a mutant of the try block's body: a hop with an IP address is success
\* whether or not an RTT was found
ParseHopLineBodyAlwaysSuccess(line) ==
    IF line.k # "hop" THEN NoHop
    ELSE LET hop_number == line.n
             hop_info == line.info
         IN IF hop_info.raw = "*" \/ hop_info.timeoutWord
            THEN HopData(hop_number, "*", NoneStr, NoneRtt, "timeout")
            ELSE IF hop_info.ellipsis
            THEN IF hop_info.endHop # -1
                 THEN HopData(hop_number, "*",
                              "No response (hops " \o ToString(hop_number) \o "-"
                                  \o ToString(hop_info.endHop) \o ")",
                              NoneRtt, "timeout")
                 ELSE HopData(hop_number, "*", "No response", NoneRtt, "timeout")
            ELSE LET d == ExtractHopDetails(hop_info)
                 IN IF d[1] = ""
                    THEN HopData(hop_number, "*", "No response", NoneRtt, "timeout")
                    ELSE HopData(hop_number, d[1], d[3], d[2], "success")

\* the body of _parse_hop_line's try block
ParseHopLineBody(line) ==
    IF line.k # "hop" THEN NoHop          \* re.match(r'^\s*(\d+)\s+(.+)$') fails
    ELSE LET hop_number == line.n
             hop_info == line.info
         IN IF hop_info.raw = "*" \/ hop_info.timeoutWord
            THEN HopData(hop_number, "*", NoneStr, NoneRtt, "timeout")
            ELSE IF hop_info.ellipsis
            THEN IF hop_info.endHop # -1
                 THEN HopData(hop_number, "*",
                              "No response (hops " \o ToString(hop_number) \o "-"
                                  \o ToString(hop_info.endHop) \o ")",
                              NoneRtt, "timeout")
                 ELSE HopData(hop_number, "*", "No response", NoneRtt, "timeout")
            ELSE LET d == ExtractHopDetails(hop_info)
                 IN IF d[1] = ""
                    THEN HopData(hop_number, "*", "No response", NoneRtt, "timeout")
                    ELSE HopData(hop_number, d[1], d[3], d[2],
                                 IF d[2] # NoneRtt THEN "success" ELSE "unknown")

\* a mutant of _parse_hop_line: the try/except is gone, HopData's error escapes
ParseHopLineNoCatch(line) == ParseHopLineBody(line)

\* _parse_hop_line: except Exception -> None
ParseHopLine(line) ==
    LET h == ParseHopLineBody(line)
    IN IF IsRaise(h) THEN NoHop ELSE h

\* hops.append(hop) for every line in order whose parse gives a hop;
\* an exception escaping _parse_hop_line ends the loop and propagates
RECURSIVE CollectHops(_, _)
CollectHops(lines, acc) ==
    IF lines = <<>> THEN Ok(acc)
    ELSE LET h == ParseHopLine(lines[1])
         IN IF IsRaise(h) THEN h
            ELSE CollectHops(Tail(lines), IF IsHop(h) THEN Append(acc, h) ELSE acc)

HopNumbers(hops) == [i \in 1..Len(hops) |-> hops[i].hop_number]

\* hop_map = {hop.hop_number: hop for hop in hops}: the last one wins
HopMapGet(hops, i) ==
    hops[CHOOSE j \in 1..Len(hops) :
            /\ hops[j].hop_number = i
            /\ \A l \in (j+1)..Len(hops) : hops[l].hop_number # i]

\* a mutant of _fill_missing_hops: nothing is filled in
FillMissingHopsNoFill(hops) == hops

\* a mutant of _fill_missing_hops: the synthesized hop is built without a
\* status and gets HopData's default, "success"
FillMissingHopsDefaultStatus(hops) ==
    IF hops = <<>> THEN hops
    ELSE LET max_hop == SeqMax(HopNumbers(hops))
         IN [i \in 1..max_hop |->
                IF \E j \in 1..Len(hops) : hops[j].hop_number = i
                THEN HopMapGet(hops, i)
                ELSE HopData(i, "*", "No response", NoneRtt, "success")]

\* _fill_missing_hops
FillMissingHops(hops) ==
    IF hops = <<>> THEN hops
    ELSE LET max_hop == SeqMax(HopNumbers(hops))
         IN [i \in 1..max_hop |->
                IF \E j \in 1..Len(hops) : hops[j].hop_number = i
                THEN HopMapGet(hops, i)
                ELSE HopData(i, "*", "No response", NoneRtt, "timeout")]

\* strip() == '' / startswith('TRACEROUTE') / startswith('Nmap') on a stripped line
IsBlank(line) == line.k = "blank"
StartsWithTraceroute(line) == line.k = "TRACEROUTE"
StartsWithNmap(line) == line.k = "Nmap"

\* _parse_traceroute_hops
ParseTracerouteHops(traceroute_lines) ==
    LET NotSkipped(l) == ~IsBlank(l) /\ ~StartsWithTraceroute(l)
        hops == CollectHops(SelectSeq(traceroute_lines, NotSkipped), <<>>)
    IN IF IsRaise(hops) THEN hops
       ELSE IF hops.hops # <<>> THEN Ok(FillMissingHops(hops.hops))
       ELSE hops

\* _parse_alternative_format: the loop over output.split('\n'), from line i on
RECURSIVE AltLoop(_, _, _, _)
AltLoop(lines, i, in_traceroute, hops) ==
    IF i > Len(lines) THEN Ok(hops)
    ELSE LET line == lines[i]
         IN IF line.k \in {"TRACEROUTE", "HOP RTT"}
            THEN AltLoop(lines, i + 1, TRUE, hops)
            ELSE IF in_traceroute /\ (StartsWithNmap(line) \/ IsBlank(line))
            THEN IF IsBlank(line)
                 THEN AltLoop(lines, i + 1, in_traceroute, hops)
                 ELSE Ok(hops)
            ELSE IF in_traceroute /\ ~IsBlank(line)
            THEN LET h == ParseHopLine(line)
                 IN IF IsRaise(h) THEN h
                    ELSE AltLoop(lines, i + 1, in_traceroute,
                                 IF IsHop(h) THEN Append(hops, h) ELSE hops)
            ELSE AltLoop(lines, i + 1, in_traceroute, hops)

ParseAlternativeFormat(lines) == AltLoop(lines, 1, FALSE, <<>>)

\* traceroute_pattern.search(output): r'TRACEROUTE.*?\n(.*?)(?=\n\n|\nNmap|\Z)'
\* with DOTALL.  The match starts at the first TRACEROUTE that a newline follows;
\* group(1) runs from the next line to the end of the first line j that is the
\* last one, or is followed by an empty line that is not the last line ("\n\n"),
\* or by a line beginning with "Nmap".  NoMatch when the regex finds nothing.
NoMatch == <<[k |-> "NoMatch", n |-> 0]>>
HeaderIndexes(lines) == {h \in 1..Len(lines) : lines[h].k = "TRACEROUTE"}
SectionEnd(lines, j) ==
    \/ j = Len(lines)
    \/ j + 1 < Len(lines) /\ IsBlank(lines[j + 1])
    \/ j + 1 <= Len(lines) /\ StartsWithNmap(lines[j + 1])
TracerouteSearch(lines) ==
    IF HeaderIndexes(lines) = {} THEN NoMatch
    ELSE LET h == CHOOSE x \in HeaderIndexes(lines) :
                      \A y \in HeaderIndexes(lines) : x <= y
         IN IF h = Len(lines) THEN NoMatch
            ELSE LET j == CHOOSE x \in (h + 1)..Len(lines) :
                              /\ SectionEnd(lines, x)
                              /\ \A y \in (h + 1)..(x - 1) : ~SectionEnd(lines, y)
                 IN SubSeq(lines, h + 1, j)

RECURSIVE AddHops(_, _)
AddHops(result, hops) ==
    IF hops = <<>> THEN result
    ELSE AddHops(add_hop(result, hops[1]), Tail(hops))

\* parse_nmap_output: the try block yields the hop list or an exception;
\* except Exception keeps the result as built so far
ParseNmapOutput(out, target, port, protocol) ==
    LET result == ScanResult(target, port, protocol, <<>>)
        hops == IF out = NoneText THEN Raise("TypeError")
                ELSE LET m == TracerouteSearch(out)
                     IN IF m = NoMatch THEN ParseAlternativeFormat(out)
                        ELSE ParseTracerouteHops(m)
    IN IF IsRaise(hops) THEN result
       ELSE AddHops(result, hops.hops)

-----------------------------------------------------------------------------
(* utils/validators.py *)

(* A port string is its comma-separated parts.  A part holds '-' (a range,  *)
(* split at the first '-') or not; each piece of text handed to int() is a  *)
(* token: the decimal numeral of val, or text that int() rejects.           *)
MaxPort == 65535
Tok(val) == [num |-> TRUE, val |-> val]             \* "80"
NotANumber == [num |-> FALSE, val |-> 0]            \* "abc", ""
Single(tok) == [dash |-> FALSE, start |-> tok, end |-> tok]     \* "80"
RangePart(start, end) == [dash |-> TRUE, start |-> start, end |-> end]  \* "80-82"

\* int(text): the number, or ValueError('invalid literal ...')
IntOf(tok) == IF tok.num THEN [val |-> tok.val] ELSE Raise("ValueError")

\* is_valid_port on an int
IsValidPort(port) == 1 <= port /\ port <= MaxPort

\* range(start_port, end_port + 1) as a list
Range(a, b) == [i \in 1..(b - a + 1) |-> a + i - 1]

\* sorted(list(set(result)))
RECURSIVE SortedSet(_)
SortedSet(S) ==
    IF S = {} THEN <<>>
    ELSE LET m == CHOOSE x \in S : \A y \in S : x <= y
         IN <<m>> \o SortedSet(S \ {m})
SeqToSet(s) == {s[i] : i \in 1..Len(s)}

\* a mutant of the loop body: a range with start > end adds nothing and is accepted
PortPartLenient(port_part) ==
    IF port_part.dash
    THEN LET start_port == IntOf(port_part.start)
             end_port == IntOf(port_part.end)
         IN IF IsRaise(start_port) \/ IsRaise(end_port) THEN Raise("ValueError")
            ELSE IF ~IsValidPort(start_port.val) \/ ~IsValidPort(end_port.val)
                 THEN Raise("ValueError")
            ELSE [ports |-> Range(start_port.val, end_port.val)]
    ELSE LET port == IntOf(port_part.start)
         IN IF IsRaise(port) THEN Raise("ValueError")
            ELSE IF ~IsValidPort(port.val) THEN Raise("ValueError")
            ELSE [ports |-> <<port.val>>]

\* the body of the loop over the parts: the ports one part adds, or ValueError
PortPart(port_part) ==
    IF port_part.dash
    THEN LET start_port == IntOf(port_part.start)
             end_port == IntOf(port_part.end)
         IN IF IsRaise(start_port) \/ IsRaise(end_port) THEN Raise("ValueError")
            ELSE IF ~IsValidPort(start_port.val) \/ ~IsValidPort(end_port.val)
                 THEN Raise("ValueError")
            ELSE IF start_port.val > end_port.val THEN Raise("ValueError")
            ELSE [ports |-> Range(start_port.val, end_port.val)]
    ELSE LET port == IntOf(port_part.start)
         IN IF IsRaise(port) THEN Raise("ValueError")
            ELSE IF ~IsValidPort(port.val) THEN Raise("ValueError")
            ELSE [ports |-> <<port.val>>]

RECURSIVE PortLoop(_, _)
PortLoop(parts, result) ==
    IF parts = <<>> THEN [ports |-> result]
    ELSE LET added == PortPart(parts[1])
         IN IF IsRaise(added) THEN added
            ELSE PortLoop(Tail(parts), result \o added.ports)

\* validate_port_list on a string
ValidatePortList(parts) ==
    LET result == PortLoop(parts, <<>>)
    IN IF IsRaise(result) THEN result
       ELSE [ports |-> SortedSet(SeqToSet(result.ports))]

-----------------------------------------------------------------------------
(* utils/nmap_executor.py *)

NmapPath == "/usr/bin/nmap"     \* self.nmap_path, found at construction

\* a mutant of NmapExecutor(timeout): the installation is not validated
NmapExecutorLazy(timeout, found) ==
    [timeout |-> timeout, nmap_path |-> IF found THEN NmapPath ELSE NoneStr]

\* NmapExecutor(timeout): _validate_nmap_installation raises RuntimeError when
\* _find_nmap_executable finds no nmap (found is what it finds)
NmapExecutor(timeout, found) ==
    IF ~found THEN Raise("RuntimeError")
    ELSE [timeout |-> timeout, nmap_path |-> NmapPath]

\* str.lower() on the protocol names used here
Lower(p) == IF p = "TCP" THEN "tcp" ELSE IF p = "UDP" THEN "udp" ELSE p

\* ",".join(map(str, ports))
RECURSIVE JoinPorts(_)
JoinPorts(ports) ==
    IF Len(ports) = 1 THEN ToString(ports[1])
    ELSE ToString(ports[1]) \o "," \o JoinPorts(Tail(ports))

\* build_command; ' '.join(cmd) in its log line raises TypeError when an
\* element (the target) is not a string
BuildCommand(timeout, target, ports, protocol, max_hops, verbose) ==
    LET cmd == <<NmapPath>>
               \o (IF Len(ports) = 1 THEN <<"-p", ToString(ports[1])>>
                   ELSE <<"-p", IF ports = <<>> THEN "" ELSE JoinPorts(ports)>>)
               \o (IF Lower(protocol) = "udp" THEN <<"-sU">> ELSE <<"-sT">>)
               \o <<"--traceroute">>
               \o <<"--max-retries", "1">>
               \o <<"--host-timeout", ToString(timeout) \o "s">>
               \o (IF verbose THEN <<"-vv">> ELSE <<>>)
               \o <<"-n">>
               \o <<target>>
    IN IF target = NoneStr THEN Raise("TypeError") ELSE [cmd |-> cmd]

\* What subprocess.run does with the command: it completes with some stdout,
\* stderr and return code, or raises TimeoutExpired, another SubprocessError,
\* or OSError (the launch failed)
Completed(stdout, returncode) ==
    [kind |-> "completed", stdout |-> stdout, returncode |-> returncode]
Failed(kind) == [kind |-> kind, stdout |-> <<>>, returncode |-> 0]
ProcessFailures == {"TimeoutExpired", "SubprocessError", "OSError"}

\* execute_scan: (stdout, stderr, return_code), every exception re-raised as RuntimeError
ExecuteScan(command, proc) ==
    IF proc.kind = "completed"
    THEN [stdout |-> proc.stdout, returncode |-> proc.returncode]
    ELSE Raise("RuntimeError")

-----------------------------------------------------------------------------
(* core/traceroute_scanner.py *)

DefaultTimeout == 30        \* TracerouteScanner(timeout=30)
DefaultMaxHops == 30        \* TracerouteScanner(max_hops=30)

\* TracerouteScanner(protocol, max_hops, timeout, verbose): the object's fields
Scanner(protocol, max_hops, timeout, verbose) ==
    [protocol |-> Lower(protocol), max_hops |-> max_hops, timeout |-> timeout,
     verbose |-> verbose]

\* TracerouteScanner.__init__: the protocol is validated, then the executor
\* is constructed
TracerouteScanner(protocol, max_hops, timeout, verbose, found) ==
    IF Lower(protocol) \notin {"tcp", "udp"} THEN Raise("ValueError")
    ELSE IF IsRaise(NmapExecutor(timeout, found)) THEN NmapExecutor(timeout, found)
    ELSE Scanner(protocol, max_hops, timeout, verbose)

\* the try block of scan_target: the parsed result, or the exception raised in it
ScanTargetBody(self, target, port_list, primary_port, scan_protocol, proc, duration) ==
    LET command == BuildCommand(self.timeout, target, port_list, scan_protocol,
                                self.max_hops, self.verbose)
    IN IF IsRaise(command) THEN command
       ELSE LET run == ExecuteScan(command.cmd, proc)
            IN IF IsRaise(run) THEN run
               ELSE [ParseNmapOutput(run.stdout, target, primary_port, scan_protocol)
                        EXCEPT !.scan_duration = duration]

PrimaryPort(port_list) == IF port_list # <<>> THEN port_list[1] ELSE 80
ScanProtocol(self, protocol) ==
    IF protocol \notin {NoneStr, ""} THEN protocol ELSE self.protocol

\* a mutant of scan_target: no except clause, the exception reaches the caller
ScanTargetNoCatch(self, target, ports, protocol, proc, duration) ==
    ScanTargetBody(self, target, ports, PrimaryPort(ports),
                   ScanProtocol(self, protocol), proc, duration)

\* scan_target(target, ports, protocol) on scanner self; ports is the port
\* list (an int argument is the one-element list); proc is what the external
\* process does, duration what time.time() - start_time measures
ScanTarget(self, target, ports, protocol, proc, duration) ==
    LET port_list == ports
        primary_port == PrimaryPort(port_list)
        scan_protocol == ScanProtocol(self, protocol)
        result == ScanTargetBody(self, target, port_list, primary_port,
                                 scan_protocol, proc, duration)
    IN IF IsRaise(result)
       THEN [ScanResult(target, primary_port, scan_protocol, <<>>)
                EXCEPT !.scan_duration = duration]
       ELSE result

\* str.strip() and str.startswith('#') on the target strings used here
Strip(s) ==
    CASE s = " 8.8.8.8 " -> "8.8.8.8"
      [] s = "  " -> ""
      [] s = " # note" -> "# note"
      [] OTHER -> s
StartsWithHash(s) == s \in {"# note", "#10.0.0.1"}

\* _read_targets_from_file: the stripped lines that are not empty and no comment
ReadTargetsFromFile(lines) ==
    SelectSeq([i \in 1..Len(lines) |-> Strip(lines[i])],
              LAMBDA line : line # "" /\ ~StartsWithHash(line))

\* the for loop of scan_multiple_targets; procs[i] is what the external
\* process does in the scan of target_list[i], if there is one
RECURSIVE ScanLoop(_, _, _, _, _)
ScanLoop(self, target_list, ports, protocol, procs) ==
    IF target_list = <<>> THEN <<>>
    ELSE LET target == Strip(target_list[1])
             rest == ScanLoop(self, Tail(target_list), ports, protocol, Tail(procs))
         IN IF target = "" \/ StartsWithHash(target) THEN rest
            ELSE LET result == ScanTarget(self, target, ports, protocol, procs[1], 0)
                 IN IF IsRaise(result) THEN rest ELSE <<result>> \o rest

\* scan_multiple_targets(targets, ports, protocol): targets is a list of
\* strings, or the path of an existing file with these lines
ScanMultipleTargets(self, targets, ports, protocol, procs) ==
    LET target_list == IF targets.kind = "file" THEN ReadTargetsFromFile(targets.items)
                       ELSE targets.items
    IN ScanLoop(self, target_list, ports, protocol, procs)

-----------------------------------------------------------------------------
(* Rational numbers <<n, d>> in lowest terms stand for Python floats;      *)
(* <<1, 0>> is float('inf')                                                *)

RECURSIVE GCD(_, _)
GCD(a, b) == IF b = 0 THEN a ELSE GCD(b, a % b)
Rat(n, d) == LET g == GCD(n, d) IN IF g = 0 THEN <<0, 1>> ELSE <<n \div g, d \div g>>
Inf == <<1, 0>>
NoneAvg == <<0, 0>>         \* None where avg_rtt is expected
RatLess(a, b) == a[1] * b[2] < b[1] * a[2]
RatMin(a, b) == IF RatLess(b, a) THEN b ELSE a
RatMax(a, b) == IF RatLess(a, b) THEN b ELSE a

RECURSIVE SeqSum(_)
SeqSum(s) == IF s = <<>> THEN 0 ELSE s[1] + SeqSum(Tail(s))

\* ScanResult.get_statistics: the entries the monitor reads
GetStatistics(r) ==
    LET valid_rtts == SelectSeq([i \in 1..Len(r.hops) |-> r.hops[i].rtt_ms],
                                LAMBDA x : x # NoneRtt)
    IN [total_hops |-> r.total_hops,
        target_reached |-> r.target_reached,
        avg_rtt |-> IF valid_rtts # <<>> THEN Rat(SeqSum(valid_rtts), Len(valid_rtts))
                    ELSE NoneAvg]

-----------------------------------------------------------------------------
(* core/realtime_monitor.py *)

Interval == 1               \* the interval the monitor is constructed with, in seconds

\* MonitorStats()
MonitorStats ==
    [total_scans |-> 0, successful_scans |-> 0, failed_scans |-> 0,
     avg_response_time |-> <<0, 1>>, min_response_time |-> Inf,
     max_response_time |-> <<0, 1>>, last_scan_time |-> 0]

\* _update_stats, given result.get_statistics() and datetime.now()
UpdateStats(st, scan_stats, now) ==
    LET s1 == [st EXCEPT !.total_scans = @ + 1, !.last_scan_time = now]
    IN IF scan_stats.target_reached
       THEN LET s2 == [s1 EXCEPT !.successful_scans = @ + 1]
            IN IF scan_stats.avg_rtt # NoneAvg
               THEN LET avg_rtt == scan_stats.avg_rtt
                        total_successful == s2.successful_scans
                        current_avg == s2.avg_response_time
                    IN [s2 EXCEPT
                          !.min_response_time = RatMin(@, avg_rtt),
                          !.max_response_time = RatMax(@, avg_rtt),
                          !.avg_response_time =
                              Rat(current_avg[1] * (total_successful - 1) * avg_rtt[2]
                                      + avg_rtt[1] * current_avg[2],
                                  current_avg[2] * avg_rtt[2] * total_successful)]
               ELSE s2
       ELSE [s1 EXCEPT !.failed_scans = @ + 1]

\* deque(maxlen=maxlen).append(x)
DequeAppend(h, x, maxlen) ==
    IF maxlen = 0 THEN h
    ELSE IF Len(h) = maxlen THEN Append(Tail(h), x)
    ELSE Append(h, x)

\* what the monitor keeps of a ScanResult: its scan_time and get_statistics()
\* scan_time, taken when the scan completes and its ScanResult is built, is the
\* number of the completion: it tells the results of one monitor apart
NoResult == [scan_time |-> 0, target_reached |-> FALSE, avg_rtt |-> NoneAvg, total_hops |-> 0]
MonResult(r, now) ==
    [scan_time |-> now, target_reached |-> GetStatistics(r).target_reached,
     avg_rtt |-> GetStatistics(r).avg_rtt, total_hops |-> GetStatistics(r).total_hops]

\* what the external process does during a monitored scan: a complete trace
\* to the target, or a timeout
SampleTrace == <<HeaderLine, HopRttLine, HopLine(1, InfoIpRtt), HopLine(2, InfoTarget)>>
MonitorProcs == {Completed(SampleTrace, 0)}

MonitorScans ==
    {ScanTarget(Scanner(Protocol, DefaultMaxHops, DefaultTimeout, FALSE),
                Target, <<Port>>, NoneStr, proc, duration) :
        proc \in MonitorProcs, duration \in 0..MaxDuration}

\* a thread running _monitor_loop: where it is, its local variables result and
\* scan_duration (None outside an iteration), and the time it sleeps
Thread(pc, result, wait) == [pc |-> pc, result |-> result, scan_duration |-> NoneDuration, wait |-> wait]
Unborn == Thread("unborn", NoResult, 0)
Threads == 1..MaxThreads
Alive(t) == thr[t].pc \notin {"unborn", "done"}
Caller(pc, n) == [pc |-> pc, ctrl_c_count |-> n]

\* RealtimeMonitor.__init__
MonitorConstructed(callback) ==
    /\ is_running = FALSE
    /\ monitor_thread = 0
    /\ history = <<>>
    /\ stats = MonitorStats
    /\ current_result = NoResult
    /\ scanning_in_progress = FALSE
    /\ stopping = FALSE
    /\ on_scan_complete = callback
    /\ thr = [t \in Threads |-> Unborn]
    /\ caller = Caller("idle", 0)
    /\ clock = 0
    /\ hlog = <<>>
    /\ last = "none"

\* a mutant of start_monitoring: the is_running test is gone
StartMonitoringNoGuard(display_live) ==
    /\ caller.pc = "idle"
    /\ \E t \in Threads :
          /\ thr[t].pc = "unborn" /\ \A u \in 1..(t - 1) : thr[u].pc # "unborn"
          /\ is_running' = TRUE
          /\ stopping' = FALSE
          /\ stats' = MonitorStats
          /\ monitor_thread' = t
          /\ thr' = [thr EXCEPT ![t] = Thread("loop", NoResult, 0)]
    /\ caller' = Caller(IF display_live THEN "display" ELSE "idle", 0)
    /\ last' = IF is_running THEN "start_rejected" ELSE "start"
    /\ UNCHANGED <<scanning_in_progress, history, current_result, on_scan_complete, clock, hlog, scanVars>>

\* start_monitoring(display_live), up to the call of _display_live_interface
StartMonitoring(display_live) ==
    /\ caller.pc = "idle"
    /\ IF is_running
       THEN /\ last' = "start_rejected"
            /\ UNCHANGED <<flagVars, dataVars, monitor_thread, on_scan_complete, thr, caller, clock, hlog>>
       ELSE /\ \E t \in Threads :
                  /\ thr[t].pc = "unborn" /\ \A u \in 1..(t - 1) : thr[u].pc # "unborn"
                  /\ is_running' = TRUE
                  /\ stopping' = FALSE
                  /\ stats' = MonitorStats
                  /\ monitor_thread' = t
                  /\ thr' = [thr EXCEPT ![t] = Thread("loop", NoResult, 0)]
            /\ caller' = Caller(IF display_live THEN "display" ELSE "idle", 0)
            /\ last' = "none"
            /\ UNCHANGED <<scanning_in_progress, history, current_result, on_scan_complete, clock, hlog>>
    /\ UNCHANGED scanVars

\* a mutant of stop_monitoring: the stopping test is gone
StopMonitoringNoGuard ==
    /\ caller.pc = "idle"
    /\ stopping' = TRUE
    /\ is_running' = FALSE
    /\ caller' = [caller EXCEPT !.pc = IF monitor_thread # 0 THEN "join" ELSE "idle"]
    /\ last' = IF stopping THEN "stop_again" ELSE "stop"
    /\ UNCHANGED <<scanning_in_progress, dataVars, monitor_thread, on_scan_complete, thr, clock, hlog, scanVars>>

\* stop_monitoring, up to monitor_thread.join(timeout=5)
StopMonitoring ==
    /\ caller.pc = "idle"
    /\ IF ~stopping
       THEN /\ stopping' = TRUE
            /\ is_running' = FALSE
            /\ caller' = [caller EXCEPT !.pc = IF monitor_thread # 0 THEN "join" ELSE "idle"]
            /\ last' = "none"
       ELSE /\ last' = "stop_again"
            /\ UNCHANGED <<stopping, is_running, caller>>
    /\ UNCHANGED <<scanning_in_progress, dataVars, monitor_thread, on_scan_complete, thr, clock, hlog, scanVars>>

\* monitor_thread.join(timeout=5) returns: the thread has ended, or the 5
\* seconds ran out while it was in a scan, a callback or a sleep
JoinReturns ==
    /\ caller.pc = "join"
    /\ \/ thr[monitor_thread].pc \in {"done", "scan", "sleep"}
       \/ thr[monitor_thread].pc = "callback" /\ on_scan_complete
    /\ caller' = [caller EXCEPT !.pc = "idle"]
    /\ UNCHANGED <<flagVars, dataVars, monitor_thread, on_scan_complete, thr, clock, hlog, last, scanVars>>

\* _display_live_interface: one evaluation of the loop condition and, when it
\* holds, one pass of the loop body, in which KeyboardInterrupt may be raised
DisplayLoop ==
    /\ caller.pc = "display"
    /\ IF is_running /\ ~stopping
       THEN \E interrupt \in BOOLEAN :
              IF interrupt
              THEN LET ctrl_c_count == caller.ctrl_c_count + 1
                   IN IF ctrl_c_count = 1
                      THEN IF ~stopping
                           THEN /\ stopping' = TRUE
                                /\ caller' = Caller("after_live", ctrl_c_count)
                                /\ UNCHANGED is_running
                           ELSE /\ caller' = Caller("display", ctrl_c_count)
                                /\ UNCHANGED <<stopping, is_running>>
                      ELSE \* print, stop_monitoring() and sys.exit(0)
                           /\ stopping' = TRUE
                           /\ is_running' = IF stopping THEN is_running ELSE FALSE
                           /\ caller' = Caller("exited", ctrl_c_count)
              ELSE UNCHANGED <<stopping, is_running, caller>>
       ELSE /\ caller' = [caller EXCEPT !.pc = "after_live"]
            /\ UNCHANGED <<stopping, is_running>>
    /\ UNCHANGED <<scanning_in_progress, dataVars, monitor_thread, on_scan_complete, thr, clock, hlog, last, scanVars>>

\* _display_live_interface after the Live block: stop_monitoring() when
\* stopping is set and is_running is not False, then the exit options, then
\* start_monitoring returns
AfterLive ==
    /\ caller.pc = "after_live"
    /\ IF stopping /\ ~(is_running = FALSE)
       THEN \* stop_monitoring() with stopping already set: nothing happens
            IF ~stopping
            THEN /\ stopping' = TRUE
                 /\ is_running' = FALSE
                 /\ caller' = [caller EXCEPT !.pc = IF monitor_thread # 0 THEN "join" ELSE "idle"]
            ELSE /\ caller' = [caller EXCEPT !.pc = "idle"]
                 /\ UNCHANGED <<stopping, is_running>>
       ELSE /\ caller' = [caller EXCEPT !.pc = "idle"]
            /\ UNCHANGED <<stopping, is_running>>
    /\ UNCHANGED <<scanning_in_progress, dataVars, monitor_thread, on_scan_complete, thr, clock, hlog, last, scanVars>>

\* a mutant of the loop test: a thread that finds the monitor stopped sleeps
\* another interval instead of leaving the loop
LoopTestNeverExits(t) ==
    /\ thr[t].pc \in {"loop", "sleep"}
    /\ thr' = [thr EXCEPT ![t] = IF is_running /\ ~stopping
                                 THEN Thread("check", NoResult, 0)
                                 ELSE Thread("sleep", NoResult, Interval)]
    /\ UNCHANGED <<flagVars, dataVars, monitor_thread, on_scan_complete, caller, clock, hlog, last, scanVars>>

\* KeyboardInterrupt after the first one has ended the display loop. While the
\* Live block is being left it is caught by the outer handler, which counts it
\* as the second one: stop_monitoring() and sys.exit(0). After the try
\* statement, in the stop_monitoring() call or at the prompt of
\* _show_exit_options, nothing catches it: it leaves start_monitoring, and the
\* count is lost with the frame.
SecondInterrupt ==
    /\ caller.pc = "after_live" /\ caller.ctrl_c_count >= 1
    /\ \E in_live_block \in BOOLEAN :
          IF in_live_block
          THEN /\ stopping' = TRUE
               /\ is_running' = IF stopping THEN is_running ELSE FALSE
               /\ caller' = Caller("exited", caller.ctrl_c_count + 1)
          ELSE /\ caller' = [caller EXCEPT !.pc = "interrupted"]
               /\ UNCHANGED <<stopping, is_running>>
    /\ last' = "interrupt"
    /\ UNCHANGED <<scanning_in_progress, dataVars, monitor_thread, on_scan_complete, thr, clock, hlog, scanVars>>

\* _monitor_loop: time.sleep, if the thread was in one, returns; then
\* while self.is_running and not self.stopping
LoopTest(t) ==
    /\ thr[t].pc \in {"loop", "sleep"}
    /\ thr' = [thr EXCEPT ![t] = Thread(IF is_running /\ ~stopping THEN "check" ELSE "done", NoResult, 0)]
    /\ UNCHANGED <<flagVars, dataVars, monitor_thread, on_scan_complete, caller, clock, hlog, last, scanVars>>

\* if self.scanning_in_progress: warn, sleep(self.interval), continue
CheckInProgress(t) ==
    /\ thr[t].pc = "check"
    /\ thr' = [thr EXCEPT ![t] = IF scanning_in_progress
                                 THEN Thread("sleep", NoResult, Interval)
                                 ELSE Thread("mark", NoResult, 0)]
    /\ UNCHANGED <<flagVars, dataVars, monitor_thread, on_scan_complete, caller, clock, hlog, last, scanVars>>

\* self.scanning_in_progress = True; start_time = time.time(); scan_target is called
MarkAndCallScan(t) ==
    /\ thr[t].pc = "mark"
    /\ clock < MaxScans
    /\ scanning_in_progress' = TRUE
    /\ clock' = clock + 1
    /\ thr' = [thr EXCEPT ![t].pc = "scan"]
    /\ UNCHANGED <<is_running, stopping, dataVars, monitor_thread, on_scan_complete, caller, hlog, last, scanVars>>

\* scan_target returns its result; scan_duration = time.time() - start_time;
\* self._update_stats(result, scan_duration)
ScanReturns(t) ==
    /\ thr[t].pc = "scan"
    /\ \E result \in MonitorScans :
          LET scan_duration == result.scan_duration
              now == Len(hlog) + 1
              r == MonResult(result, now)
          IN /\ stats' = UpdateStats(stats, r, now)
             /\ thr' = [thr EXCEPT ![t] = [Thread("append", r, 0) EXCEPT !.scan_duration = scan_duration]]
             /\ hlog' = Append(hlog, r)
    /\ UNCHANGED <<flagVars, history, current_result, monitor_thread, on_scan_complete, caller, clock, last, scanVars>>

\* self.history.append(result); self.current_result = result
AppendHistory(t) ==
    /\ thr[t].pc = "append"
    /\ history' = DequeAppend(history, thr[t].result, MaxHistory)
    /\ current_result' = thr[t].result
    /\ thr' = [thr EXCEPT ![t].pc = "callback"]
    /\ UNCHANGED <<flagVars, stats, monitor_thread, on_scan_complete, caller, clock, hlog, last, scanVars>>

\* if self.on_scan_complete: self.on_scan_complete(result), which returns or raises
Callback(t) ==
    /\ thr[t].pc = "callback"
    /\ \E raises \in {FALSE, on_scan_complete} :
          thr' = [thr EXCEPT ![t].pc = IF raises THEN "except" ELSE "clear"]
    /\ UNCHANGED <<flagVars, dataVars, monitor_thread, on_scan_complete, caller, clock, hlog, last, scanVars>>

\* a mutant of the end of an iteration: it sleeps the whole interval
ClearAndWaitFullInterval(t) ==
    /\ thr[t].pc = "clear"
    /\ scanning_in_progress' = FALSE
    /\ thr' = [thr EXCEPT ![t] = Thread("sleep", NoResult, Interval)]
    /\ UNCHANGED <<is_running, stopping, dataVars, monitor_thread, on_scan_complete, caller, clock, hlog, last, scanVars>>

\* self.scanning_in_progress = False; actual_wait = max(0, interval - scan_duration);
\* sleep(actual_wait) when it is positive
ClearAndWait(t) ==
    /\ thr[t].pc = "clear"
    /\ scanning_in_progress' = FALSE
    /\ LET scan_duration == thr[t].scan_duration
           actual_wait == IF Interval - scan_duration > 0 THEN Interval - scan_duration ELSE 0
       IN thr' = [thr EXCEPT ![t] = IF actual_wait > 0
                                    THEN Thread("sleep", NoResult, actual_wait)
                                    ELSE Thread("loop", NoResult, 0)]
    /\ UNCHANGED <<is_running, stopping, dataVars, monitor_thread, on_scan_complete, caller, clock, hlog, last, scanVars>>

\* a mutant of the except branch: the in-progress mark is left as it is
HandleExceptionNoClear(t) ==
    /\ thr[t].pc = "except"
    /\ stats' = [stats EXCEPT !.failed_scans = @ + 1]
    /\ thr' = [thr EXCEPT ![t] = Thread("sleep", NoResult, Interval)]
    /\ UNCHANGED <<flagVars, history, current_result, monitor_thread, on_scan_complete, caller, clock, hlog, last, scanVars>>

\* except Exception: failed_scans += 1; scanning_in_progress = False; sleep(interval)
HandleException(t) ==
    /\ thr[t].pc = "except"
    /\ stats' = [stats EXCEPT !.failed_scans = @ + 1]
    /\ scanning_in_progress' = FALSE
    /\ thr' = [thr EXCEPT ![t] = Thread("sleep", NoResult, Interval)]
    /\ UNCHANGED <<is_running, stopping, history, current_result, monitor_thread, on_scan_complete, caller, clock, hlog, last, scanVars>>

-----------------------------------------------------------------------------
(* Inputs *)

TextInfos == {InfoStar, InfoIpRtt, InfoIp, InfoTarget}
TextLines == {BlankLine, HeaderLine, HopRttLine, NmapLine, OtherLine}
                 \cup {HopLine(n, i) : n \in 0..MaxHopNo, i \in TextInfos}
Texts == UNION {[1..n -> TextLines] : n \in 0..MaxLines}

\* texts of a scan that found nothing and of one that traced the route
MultiTexts == {<<>>, SampleTrace}

NotRun == [notrun |-> TRUE]
NoRequest == [target |-> NoneStr, proc |-> "none", duration |-> NoneDuration]
IsResult(x) == "hops" \in DOMAIN x

\* hops a caller can hand to ScanResult(...) or add_hop
SomeHops == {HopData(n, i.ip, NoneStr, i.rtt, s) :
                n \in 1..MaxHops, i \in {InfoIpRtt, InfoIp, InfoTarget},
                s \in {"success", "unknown"}}
            \cup {HopData(n, "*", NoneStr, NoneRtt, "timeout") : n \in 1..MaxHops}

-----------------------------------------------------------------------------
(* Specification of the parser: one call of parse_nmap_output on any text *)

InitParse ==
    /\ output \in Texts \cup {NoneText}
    /\ pres = NotRun
    /\ sr = ScanResult(Target, Port, Protocol, <<>>)
    /\ req = NoRequest
    /\ MonitorConstructed(FALSE)

Parse ==
    /\ pres = NotRun
    /\ pres' = ParseNmapOutput(output, Target, Port, Protocol)
    /\ UNCHANGED <<output, sr, req, monVars>>

NextParse == Parse

SpecParse == InitParse /\ [][NextParse]_vars

-----------------------------------------------------------------------------
(* Specification of ScanResult: construction, then add_hop calls *)

InitResult ==
    /\ output = <<>>
    /\ pres = NotRun
    /\ req = NoRequest
    /\ MonitorConstructed(FALSE)
    /\ \E hops \in {<<>>} \cup {<<h>> : h \in SomeHops} :
           sr = ScanResult(Target, Port, Protocol, hops)

AddHop ==
    /\ Len(sr.hops) < MaxHops
    /\ \E hop \in SomeHops : sr' = add_hop(sr, hop)
    /\ UNCHANGED <<output, pres, req, monVars>>

NextResult == AddHop

SpecResult == InitResult /\ [][NextResult]_vars

-----------------------------------------------------------------------------
(* Specification of the orchestrator: one call of scan_target, the external  *)
(* process completing with any short text or failing                         *)

ScanTexts == UNION {[1..n -> TextLines] : n \in 0..MaxScanLines}
ScanTargets == {Target, "10.0.0.1", NoneStr}
ProcOutcomes == {"completed0", "completed1"} \cup ProcessFailures

InitScan ==
    /\ output \in ScanTexts
    /\ pres = NotRun
    /\ sr = ScanResult(Target, Port, Protocol, <<>>)
    /\ req = NoRequest
    /\ MonitorConstructed(FALSE)

ScanTargetCall ==
    /\ pres = NotRun
    /\ \E target \in ScanTargets, kind \in ProcOutcomes, duration \in 0..MaxDuration :
          LET proc == IF kind = "completed0" THEN Completed(output, 0)
                      ELSE IF kind = "completed1" THEN Completed(output, 1)
                      ELSE Failed(kind)
          IN /\ req' = [target |-> target, proc |-> proc.kind, duration |-> duration]
             /\ pres' = ScanTarget(Scanner(Protocol, DefaultMaxHops, DefaultTimeout, TRUE),
                                   target, <<Port>>, NoneStr, proc, duration)
    /\ UNCHANGED <<output, sr, monVars>>

NextScan == ScanTargetCall

SpecScan == InitScan /\ [][NextScan]_vars

-----------------------------------------------------------------------------
(* Specification of construction: an executor, a scanner or a monitor is     *)
(* constructed, nmap being installed or not, and a scanner that exists is    *)
(* asked for one scan with a per-call protocol                               *)

ProtocolNames == {"tcp", "TCP", "udp", "UDP", "icmp", ""}
IsScanner(x) == "max_hops" \in DOMAIN x
IsExecutor(x) == "nmap_path" \in DOMAIN x
IsMonitor(x) == "scanner" \in DOMAIN x

\* RealtimeMonitor.__init__, up to the construction of its scanner
RealtimeMonitor(target, port, protocol, timeout, found) ==
    LET scanner == TracerouteScanner(protocol, DefaultMaxHops, timeout, FALSE, found)
    IN IF IsRaise(scanner) THEN scanner
       ELSE [target |-> target, port |-> port, protocol |-> protocol, scanner |-> scanner]

InitNew ==
    /\ output \in MultiTexts
    /\ pres = NotRun
    /\ sr = ScanResult(Target, Port, Protocol, <<>>)
    /\ req = NoRequest
    /\ MonitorConstructed(FALSE)

NewExecutor ==
    /\ req = NoRequest
    /\ \E found \in BOOLEAN :
          /\ req' = [what |-> "executor", protocol |-> NoneStr, found |-> found,
                     override |-> NoneStr, proc |-> "none"]
          /\ pres' = NmapExecutor(DefaultTimeout, found)
    /\ UNCHANGED <<output, sr, monVars>>

NewScanner ==
    /\ req = NoRequest
    /\ \E protocol \in ProtocolNames, found \in BOOLEAN :
          /\ req' = [what |-> "scanner", protocol |-> protocol, found |-> found,
                     override |-> NoneStr, proc |-> "none"]
          /\ pres' = TracerouteScanner(protocol, DefaultMaxHops, DefaultTimeout, TRUE, found)
    /\ UNCHANGED <<output, sr, monVars>>

NewMonitor ==
    /\ req = NoRequest
    /\ \E protocol \in ProtocolNames, found \in BOOLEAN :
          /\ req' = [what |-> "monitor", protocol |-> protocol, found |-> found,
                     override |-> NoneStr, proc |-> "none"]
          /\ pres' = RealtimeMonitor(Target, Port, protocol, DefaultTimeout, found)
    /\ UNCHANGED <<output, sr, monVars>>

ScanWithProtocol ==
    /\ IsScanner(pres)
    /\ \E override \in ProtocolNames \cup {NoneStr}, kind \in {"completed"} \cup ProcessFailures,
          duration \in 0..MaxDuration :
          /\ req' = [req EXCEPT !.what = "scan", !.override = override, !.proc = kind]
          /\ pres' = ScanTarget(pres, Target, <<Port>>, override,
                                IF kind = "completed" THEN Completed(output, 0) ELSE Failed(kind),
                                duration)
    /\ UNCHANGED <<output, sr, monVars>>

NextNew == NewExecutor \/ NewScanner \/ NewMonitor \/ ScanWithProtocol

SpecNew == InitNew /\ [][NextNew]_vars

-----------------------------------------------------------------------------
(* Specification of port-list validation: one call of validate_port_list on  *)
(* any port string of a few parts                                            *)

PortParts ==
    {Single(t) : t \in {Tok(0), Tok(1), Tok(3), Tok(MaxPort), Tok(MaxPort + 1), NotANumber}}
        \cup {RangePart(Tok(a), Tok(b)) : a, b \in 1..3}
        \cup {RangePart(Tok(0), Tok(2)), RangePart(NotANumber, Tok(2)),
              RangePart(Tok(2), NotANumber), RangePart(Tok(MaxPort), Tok(MaxPort + 1))}
PortStrings == UNION {[1..n -> PortParts] : n \in 1..MaxParts}
IsPorts(x) == "ports" \in DOMAIN x

InitPorts ==
    /\ output = <<>>
    /\ pres = NotRun
    /\ sr = ScanResult(Target, Port, Protocol, <<>>)
    /\ req \in {[ports |-> parts] : parts \in PortStrings}
    /\ MonitorConstructed(FALSE)

ValidatePortListCall ==
    /\ pres = NotRun
    /\ pres' = ValidatePortList(req.ports)
    /\ UNCHANGED <<output, sr, req, monVars>>

NextPorts == ValidatePortListCall

SpecPorts == InitPorts /\ [][NextPorts]_vars

-----------------------------------------------------------------------------
(* Specification of hop-line parsing: one call of _parse_hop_line on any     *)
(* line '<hop_number> <rest>', the rest described by what the parser's       *)
(* tests and regular expressions find in it                                  *)

RestInfos ==
    {Info(raw, timeoutWord, ellipsis, endHop, ip, rtt, host) :
        raw \in {"*", "text"}, timeoutWord \in BOOLEAN, ellipsis \in BOOLEAN,
        endHop \in {-1, 5}, ip \in {"", "192.168.1.1"}, rtt \in {NoneRtt, 1},
        host \in {NoneStr, "gw.example.com"}}
IsParsed(x) == "parsed" \in DOMAIN x

InitHopLine ==
    /\ output = <<>>
    /\ pres = NotRun
    /\ sr = ScanResult(Target, Port, Protocol, <<>>)
    /\ req \in {[line |-> HopLine(n, info)] : n \in 0..MaxHopNo, info \in RestInfos}
    /\ MonitorConstructed(FALSE)

ParseHopLineCall ==
    /\ pres = NotRun
    /\ pres' = [parsed |-> ParseHopLine(req.line)]
    /\ UNCHANGED <<output, sr, req, monVars>>

NextHopLine == ParseHopLineCall

SpecHopLine == InitHopLine /\ [][NextHopLine]_vars

-----------------------------------------------------------------------------
(* Specification of the fallback parse: one call of                          *)
(* _parse_alternative_format on any text of a few lines                      *)

IsAlt(x) == "alt" \in DOMAIN x

InitAlt ==
    /\ output \in Texts
    /\ pres = NotRun
    /\ sr = ScanResult(Target, Port, Protocol, <<>>)
    /\ req = NoRequest
    /\ MonitorConstructed(FALSE)

ParseAlternativeFormatCall ==
    /\ pres = NotRun
    /\ pres' = [alt |-> ParseAlternativeFormat(output)]
    /\ UNCHANGED <<output, sr, req, monVars>>

NextAlt == ParseAlternativeFormatCall

SpecAlt == InitAlt /\ [][NextAlt]_vars

-----------------------------------------------------------------------------
(* Specification of command building: one call of build_command on an        *)
(* executor constructed with the default timeout                             *)

CommandTargets == {Target, "10.0.0.1"}
CommandPorts == {<<Port>>, <<53>>, <<Port, 443>>}
CommandProtocols == {"tcp", "udp", "UDP"}
IsCommand(x) == "cmd" \in DOMAIN x

InitCommand ==
    /\ output = <<>>
    /\ pres = NotRun
    /\ sr = ScanResult(Target, Port, Protocol, <<>>)
    /\ req \in {[target |-> target, ports |-> ports, protocol |-> protocol,
                  max_hops |-> max_hops, verbose |-> verbose] :
                    target \in CommandTargets, ports \in CommandPorts,
                    protocol \in CommandProtocols, max_hops \in 1..MaxHops,
                    verbose \in BOOLEAN}
    /\ MonitorConstructed(FALSE)

BuildCommandCall ==
    /\ pres = NotRun
    /\ pres' = BuildCommand(DefaultTimeout, req.target, req.ports, req.protocol,
                            req.max_hops, req.verbose)
    /\ UNCHANGED <<output, sr, req, monVars>>

NextCommand == BuildCommandCall

SpecCommand == InitCommand /\ [][NextCommand]_vars

-----------------------------------------------------------------------------
(* Specification of gap filling: one call of _fill_missing_hops on any list  *)
(* of parsed hops                                                            *)

ParsedHops ==
    {HopData(n, ip, NoneStr, 10, "success") : n \in 1..MaxHops, ip \in {"10.0.0.1", "10.0.0.2"}}
        \cup {HopData(n, "*", NoneStr, NoneRtt, "timeout") : n \in 1..MaxHops}
ParsedHopLists == UNION {[1..n -> ParsedHops] : n \in 0..MaxFill}
IsFilled(x) == "filled" \in DOMAIN x

InitFill ==
    /\ output = <<>>
    /\ pres = NotRun
    /\ sr = ScanResult(Target, Port, Protocol, <<>>)
    /\ req \in {[hops |-> hops] : hops \in ParsedHopLists}
    /\ MonitorConstructed(FALSE)

FillMissingHopsCall ==
    /\ pres = NotRun
    /\ pres' = [filled |-> FillMissingHops(req.hops)]
    /\ UNCHANGED <<output, sr, req, monVars>>

NextFill == FillMissingHopsCall

SpecFill == InitFill /\ [][NextFill]_vars

-----------------------------------------------------------------------------
(* Specification of batch scanning: one call of scan_multiple_targets on a   *)
(* list of targets or a target file, every scan completing or failing        *)

TargetStrings == {Target, " 8.8.8.8 ", "10.0.0.1", "", "  ", "# note", " # note", "#10.0.0.1"}
TargetLists == UNION {[1..n -> TargetStrings] : n \in 0..MaxTargets}
IsResults(x) == "results" \in DOMAIN x

InitMulti ==
    /\ output \in MultiTexts
    /\ pres = NotRun
    /\ sr = ScanResult(Target, Port, Protocol, <<>>)
    /\ req = NoRequest
    /\ MonitorConstructed(FALSE)

ScanMultipleTargetsCall ==
    /\ pres = NotRun
    /\ \E items \in TargetLists, kind \in {"list", "file"} :
          \E kinds \in [1..Len(items) -> {"completed"} \cup ProcessFailures] :
             LET procs == [i \in 1..Len(items) |->
                              IF kinds[i] = "completed" THEN Completed(output, 0)
                              ELSE Failed(kinds[i])]
             IN /\ req' = [targets |-> [kind |-> kind, items |-> items], procs |-> kinds]
                /\ pres' = [results |-> ScanMultipleTargets(
                                 Scanner(Protocol, DefaultMaxHops, DefaultTimeout, TRUE),
                                 [kind |-> kind, items |-> items], <<Port>>, NoneStr, procs)]
    /\ UNCHANGED <<output, sr, monVars>>

NextMulti == ScanMultipleTargetsCall

SpecMulti == InitMulti /\ [][NextMulti]_vars

-----------------------------------------------------------------------------
(* Specification of the monitor: the caller thread calling start() and       *)
(* stop() and sitting in the live display, and the periodic activities.      *)
(* on_scan_complete is None, as __init__ leaves it.                          *)

Init ==
    /\ output = <<>>
    /\ pres = NotRun
    /\ sr = ScanResult(Target, Port, Protocol, <<>>)
    /\ req = NoRequest
    /\ MonitorConstructed(FALSE)

Next ==
    \/ \E display_live \in BOOLEAN : StartMonitoring(display_live)
    \/ StopMonitoring
    \/ JoinReturns
    \/ DisplayLoop
    \/ AfterLive
    \/ \E t \in Threads :
          \/ LoopTest(t)
          \/ CheckInProgress(t)
          \/ MarkAndCallScan(t)
          \/ ScanReturns(t)
          \/ AppendHistory(t)
          \/ Callback(t)
          \/ ClearAndWait(t)

Spec == Init /\ [][Next]_vars

\* The monitor after monitor.on_scan_complete = f for a callback f that may
\* raise: the only exception an iteration of _monitor_loop can meet.
InitCallback ==
    /\ output = <<>>
    /\ pres = NotRun
    /\ sr = ScanResult(Target, Port, Protocol, <<>>)
    /\ req = NoRequest
    /\ MonitorConstructed(TRUE)

NextCallback ==
    \/ Next
    \/ \E t \in Threads : HandleException(t)

SpecCallback == InitCallback /\ [][NextCallback]_vars

\* one step of the thread t running _monitor_loop
ThreadStep(t) ==
    \/ LoopTest(t)
    \/ CheckInProgress(t)
    \/ MarkAndCallScan(t)
    \/ ScanReturns(t)
    \/ AppendHistory(t)
    \/ Callback(t)
    \/ ClearAndWait(t)

\* The monitor with a user who may press Ctrl+C again during the wind-down
NextInterrupt ==
    \/ Next
    \/ SecondInterrupt

SpecInterrupt == Init /\ [][NextInterrupt]_vars

\* The monitor up to its first stop signal and from then on with no new
\* start(): start_monitoring is not called once stopping is set
NextLive ==
    \/ \E display_live \in BOOLEAN : ~stopping /\ StartMonitoring(display_live)
    \/ StopMonitoring
    \/ JoinReturns
    \/ DisplayLoop
    \/ AfterLive
    \/ \E t \in Threads : ThreadStep(t)

\* Threads keep running: every scan_target call and every time.sleep returns,
\* and a started thread is scheduled again and again
Fairness == \A t \in Threads : WF_vars(ThreadStep(t))
SpecLive == Init /\ [][NextLive]_vars /\ Fairness

\* One session of the same monitor without the live display:
\* start_monitoring(False), also called again while running, and the
\* periodic activity
NextIteration ==
    \/ StartMonitoring(FALSE)
    \/ \E t \in Threads :
          \/ LoopTest(t)
          \/ CheckInProgress(t)
          \/ MarkAndCallScan(t)
          \/ ScanReturns(t)
          \/ AppendHistory(t)
          \/ Callback(t)
          \/ ClearAndWait(t)
          \/ HandleException(t)

SpecIteration == InitCallback /\ [][NextIteration]_vars

-----------------------------------------------------------------------------
(* Specification of the statistics: _update_stats applied, in one session,   *)
(* to the results of completed scans, any ScanResult a scan can be           *)

StatRtts == {10, 20, 30}
StatHops ==
    {<<HopData(1, Target, NoneStr, rtt, "success")>> : rtt \in StatRtts \cup {NoneRtt}}
        \cup {<<HopData(1, "*", NoneStr, NoneRtt, "timeout")>>}
StatResults == {ScanResult(Target, Port, Protocol, hops) : hops \in StatHops}

InitStats ==
    /\ output = <<>>
    /\ pres = NotRun
    /\ sr = ScanResult(Target, Port, Protocol, <<>>)
    /\ req = NoRequest
    /\ MonitorConstructed(FALSE)

UpdateStatsCall ==
    /\ clock < MaxStatScans
    /\ clock' = clock + 1
    /\ \E result \in StatResults :
          /\ stats' = UpdateStats(stats, MonResult(result, clock'), clock')
          /\ hlog' = Append(hlog, MonResult(result, clock'))
    /\ UNCHANGED <<flagVars, history, current_result, monitor_thread, on_scan_complete,
                   thr, caller, last, scanVars>>

NextStats == UpdateStatsCall

SpecStats == InitStats /\ [][NextStats]_vars

-----------------------------------------------------------------------------
(* Claims *)

LastHop(r) == r.hops[Len(r.hops)]

\* C1: whatever the raw text and whichever parsing path was taken, the hops of
\* the result of parse_nmap_output are numbered exactly 1, 2, ..., max in order
\* (or the hop list is empty).
C1_HopNumbersAreOneToMax ==
    IsResult(pres) => \A i \in 1..Len(pres.hops) : pres.hops[i].hop_number = i

\* C2: after construction and after every add_hop, total_hops is the number of
\* hops and target_reached is true iff the hop list is non-empty and its last
\* hop has the target's IP or status success.
C2_DerivedFieldsMatchHops ==
    /\ sr.total_hops = Len(sr.hops)
    /\ sr.target_reached =
          (sr.hops # <<>> /\ (LastHop(sr).ip_address = sr.target
                               \/ LastHop(sr).status = "success"))

\* a hop line whose parsing fails: HopData rejects its hop number
FailingLine(l) == l.k = "hop" /\ l.n < 1
\* the text with every failing hop line replaced by a line that is no hop line
WithoutFailingLines(text) ==
    [i \in 1..Len(text) |-> IF FailingLine(text[i]) THEN OtherLine ELSE text[i]]

\* C10: parse_nmap_output returns a ScanResult for every input and never
\* raises; a hop line whose parsing fails is skipped (the result is the one the
\* text gives with a non-hop line in its place), and an internal failure (the input is not a
\* string) gives the result with the hops added so far, here none.
C10_ParseNeverRaises ==
    pres # NotRun /\ req = NoRequest =>
        /\ IsResult(pres)
        /\ pres.target = Target /\ pres.port = Port /\ pres.protocol = Protocol
        /\ \A i \in 1..Len(pres.hops) : IsHop(pres.hops[i])
        /\ output = NoneText => pres.hops = <<>>
        /\ output # NoneText =>
              pres.hops = ParseNmapOutput(WithoutFailingLines(output),
                                          Target, Port, Protocol).hops

\* C10 witness: a text with a failing hop line was parsed and the other hop
\* lines' hops are in the result
C10_Witness ==
    /\ IsResult(pres) /\ req = NoRequest /\ output # NoneText
    /\ \E i \in 1..Len(output) : FailingLine(output[i])
    /\ pres.hops # <<>>

ScanFailed == req.proc \in ProcessFailures \/ req.target = NoneStr

\* C9: scan_target never raises; when command building or the tool execution
\* fails (a timeout and a failed launch included) it returns a ScanResult for
\* the requested target, port and protocol with zero hops, target_reached
\* false and scan_duration set.
C9_ScanTargetNeverRaises ==
    req # NoRequest =>
        /\ IsResult(pres)
        /\ pres.scan_duration = req.duration /\ pres.scan_duration # NoneDuration
        /\ pres.target = req.target /\ pres.port = Port /\ pres.protocol = Protocol
        /\ ScanFailed => pres.hops = <<>> /\ ~pres.target_reached /\ pres.total_hops = 0

\* C9 witness: the tool timed out and scan_target returned
C9_Witness ==
    /\ req.proc = "TimeoutExpired" /\ IsResult(pres) /\ pres.hops = <<>>

\* C3: at most one scan_target call of the monitor is in flight at a time, in
\* every interleaving of the caller and the periodic activities.
C3_AtMostOneScanInFlight ==
    Cardinality({t \in Threads : thr[t].pc = "scan"}) <= 1

RatAdd(a, b) == Rat(a[1] * b[2] + b[1] * a[2], a[2] * b[2])
RECURSIVE RatSum(_)
RatSum(s) == IF s = <<>> THEN <<0, 1>> ELSE RatAdd(s[1], RatSum(Tail(s)))
Mean(s) == Rat(RatSum(s)[1], RatSum(s)[2] * Len(s))
\* the RTT samples of the session: one from each scan counted successful that
\* supplied one
Samples ==
    LET counted == SelectSeq(hlog, LAMBDA r : r.target_reached /\ r.avg_rtt # NoneAvg)
    IN [i \in 1..Len(counted) |-> counted[i].avg_rtt]

C5_StopLeavesMonitorIdle ==
    caller.pc = "idle" /\ stopping => ~is_running

\* C6: stop() called when a stop has already been initiated or completed
\* changes no monitor state and starts no second wait on the periodic activity.
C6_StopIsIdempotent ==
    [][StopMonitoring /\ stopping =>
          UNCHANGED <<flagVars, dataVars, monitor_thread, on_scan_complete, thr, caller>>]_vars

\* C6 witness: stop() was called again after the monitor had fully stopped
C6_Witness ==
    /\ last = "stop_again" /\ stopping /\ ~is_running
    /\ monitor_thread # 0 /\ thr[monitor_thread].pc = "done"

\* C7: start() on a monitor that is running spawns no second periodic activity
\* and leaves MonitorStats, the history, the current result and the running,
\* stopping and in-progress flags unchanged.
C7_StartWhileRunningIsNoOp ==
    [][(\E display_live \in BOOLEAN : StartMonitoring(display_live)) /\ is_running =>
          UNCHANGED <<flagVars, dataVars, monitor_thread, on_scan_complete, thr, caller>>]_vars

\* C7 witness: start() was rejected while a session with results was running
C7_Witness ==
    /\ last = "start_rejected" /\ is_running /\ history # <<>>
    /\ Cardinality({t \in Threads : thr[t].pc # "unborn"}) = 1

LastN(s, n) == IF Len(s) <= n THEN s ELSE SubSeq(s, Len(s) - n + 1, Len(s))
\* the results of completed scans that have been appended to the history, in
\* the order in which their scans completed
Appended ==
    SelectSeq(hlog, LAMBDA r : \A t \in Threads : ~(thr[t].pc = "append" /\ thr[t].result = r))

\* C8: the history holds at most max_history results, and they are the most
\* recently completed scans in the order in which the scans completed.
C8_HistoryIsRecentCompletions ==
    /\ Len(history) <= MaxHistory
    /\ history = LastN(Appended, MaxHistory)

\* a target that is to be scanned: not blank and, leading blanks aside, not
\* beginning with '#'
Wanted(t) == Strip(t) # "" /\ ~StartsWithHash(Strip(t))
WantedTargets(items) ==
    SelectSeq([i \in 1..Len(items) |-> Strip(items[i])], LAMBDA t : Wanted(t))

\* C11: scan_multiple_targets on a list of targets returns exactly one
\* ScanResult per target that is not blank and does not begin with '#', in
\* input order, also when scans come back empty or fail.
C11_OneResultPerTargetInOrder ==
    IsResults(pres) /\ req.targets.kind = "list" =>
        /\ Len(pres.results) = Len(WantedTargets(req.targets.items))
        /\ \A i \in 1..Len(pres.results) :
              /\ IsResult(pres.results[i])
              /\ pres.results[i].target = WantedTargets(req.targets.items)[i]

\* C11 witness: a list of two different targets whose first scan failed, both
\* results returned
C11_Witness ==
    /\ IsResults(pres) /\ req.targets.kind = "list"
    /\ Len(req.targets.items) = 2 /\ Len(pres.results) = 2
    /\ req.procs[1] = "TimeoutExpired"
    /\ pres.results[1].target # pres.results[2].target

\* the hop that gap filling synthesizes for a number that was not parsed
SynthesizedHop(i) ==
    [hop_number |-> i, ip_address |-> "*", hostname |-> "No response",
     rtt_ms |-> NoneRtt, status |-> "timeout"]

\* C12: for a non-empty list of parsed hops with largest number m, gap filling
\* returns m hops numbered 1..m in order; a number that was parsed keeps its
\* parsed hop (the last one parsed with that number), every other number gets
\* the synthesized timeout hop.
C12_GapFillingGivesOneToMax ==
    IsFilled(pres) /\ req.hops # <<>> =>
        LET hops == req.hops
            m == SeqMax(HopNumbers(hops))
            parsed(i) == {j \in 1..Len(hops) : hops[j].hop_number = i}
        IN /\ Len(pres.filled) = m
           /\ \A i \in 1..m :
                 /\ pres.filled[i].hop_number = i
                 /\ parsed(i) # {} =>
                       pres.filled[i] = hops[CHOOSE j \in parsed(i) : \A l \in parsed(i) : l <= j]
                 /\ parsed(i) = {} => pres.filled[i] = SynthesizedHop(i)

\* C12 witness: hops 1 and 3 were parsed, hop 1 twice, and three hops came back
C12_Witness ==
    /\ IsFilled(pres) /\ HopNumbers(req.hops) = <<1, 3, 1>>
    /\ req.hops[1] # req.hops[3]
    /\ Len(pres.filled) = 3 /\ pres.filled[2] = SynthesizedHop(2)

\* C13: HopData(...) with hop_number < 1 or an empty IP raises, so every hop of
\* a result of the parser has hop_number >= 1 and a non-empty IP; a line with
\* hop number 0 is dropped and the remaining lines are parsed as without it.
C13_HopsAreValid ==
    /\ \A n \in (-1)..MaxHopNo, ip \in {"", "*", "10.0.0.1"} :
          IF n < 1 \/ ip = ""
          THEN HopData(n, ip, NoneStr, NoneRtt, "success") = Raise("ValueError")
          ELSE IsHop(HopData(n, ip, NoneStr, NoneRtt, "success"))
    /\ IsResult(pres) =>
          /\ \A i \in 1..Len(pres.hops) :
                pres.hops[i].hop_number >= 1 /\ pres.hops[i].ip_address # ""
          /\ output # NoneText =>
                pres.hops = ParseNmapOutput(
                    [i \in 1..Len(output) |->
                        IF output[i].k = "hop" /\ output[i].n = 0 THEN OtherLine ELSE output[i]],
                    Target, Port, Protocol).hops

\* C13 witness: a line with hop number 0 came before a good hop line, and the
\* good one is the result
C13_Witness ==
    /\ output = <<HopRttLine, HopLine(0, InfoIpRtt), HopLine(1, InfoTarget)>>
    /\ IsResult(pres) /\ Len(pres.hops) = 1 /\ pres.hops[1].ip_address = Target

\* C14: every ScanResult returned by scan_target carries protocol tcp or udp,
\* whether the protocol came from the scanner's construction or from the call.
C14_ResultProtocolIsTcpOrUdp ==
    IsResult(pres) => pres.protocol \in {"tcp", "udp"}

\* C16: constructing the executor, or a scanner or monitor built on it, fails
\* with an error when nmap cannot be located; no executor object without a
\* located binary ever exists.
C16_ConstructionFailsWithoutNmap ==
    /\ req # NoRequest /\ ~req.found => IsRaise(pres)
    /\ IsExecutor(pres) => pres.nmap_path = NmapPath

\* C16 witness: a monitor with a valid protocol was asked for without nmap
\* installed, and the construction raised RuntimeError
C16_Witness ==
    /\ req # NoRequest /\ req.what = "monitor" /\ req.protocol = "tcp" /\ ~req.found
    /\ pres = Raise("RuntimeError")

\* what the claim says of one part: it is rejected, or it names ports
Rejected(part) ==
    \/ ~part.start.num \/ ~part.end.num
    \/ part.start.val < 1 \/ part.start.val > 65535
    \/ part.end.val < 1 \/ part.end.val > 65535
    \/ part.dash /\ part.start.val > part.end.val
Named(part) == IF part.dash THEN part.start.val..part.end.val ELSE {part.start.val}

\* C15: validate_port_list on a port string returns the ascending,
\* duplicate-free list of the ports its single ports and inclusive ranges
\* name, and raises (returning no list) when a port is outside 1..65535, a
\* part is not a number or a range has start > end.
C15_PortListIsSortedUnion ==
    pres # NotRun /\ "ports" \in DOMAIN req =>
        LET parts == req.ports
        IN IF \E i \in 1..Len(parts) : Rejected(parts[i])
           THEN IsRaise(pres)
           ELSE /\ IsPorts(pres)
                /\ SeqToSet(pres.ports) = UNION {Named(parts[i]) : i \in 1..Len(parts)}
                /\ \A i \in 1..(Len(pres.ports) - 1) : pres.ports[i] < pres.ports[i + 1]

\* C15 witness: "3,1-2,3" gave [1, 2, 3]
C15_Witness ==
    /\ pres # NotRun /\ "ports" \in DOMAIN req
    /\ req.ports = <<Single(Tok(3)), RangePart(Tok(1), Tok(2)), Single(Tok(3))>>
    /\ pres = [ports |-> <<1, 2, 3>>]

\* C17: at most one periodic activity of a monitor is alive at a time, and an
\* activity that was told to stop never passes its loop test again after a
\* later start(): only the thread of the latest start() is found looping.
C17_OneActivityAndNoResume ==
    /\ Cardinality({t \in Threads : Alive(t)}) <= 1
    /\ \A t \in Threads : thr[t].pc = "check" => t = monitor_thread

\* C18: once stop() has returned and until the next start(), no step changes
\* the history, the MonitorStats or the current result.
C18_NoChangeAfterStopReturned ==
    [][caller.pc = "idle" /\ stopping /\ ~is_running /\ stopping'
          => UNCHANGED <<history, stats, current_result>>]_vars

\* the positions of a thread between two iterations of its loop
BetweenIterations(t) == thr[t].pc \in {"unborn", "done", "loop", "sleep", "check", "mark"}

\* C19: between iterations of the periodic activity total_scans is
\* successful_scans + failed_scans, also after iterations in which the
\* callback raised.
C19_TotalIsSuccessfulPlusFailed ==
    (\A t \in Threads : BetweenIterations(t)) =>
        stats.total_scans = stats.successful_scans + stats.failed_scans

\* the callback of thread t has been invoked with the thread's result and has
\* not returned
InCallback(t) == thr[t].pc = "callback" /\ on_scan_complete

\* C20: while the per-scan callback runs, the MonitorStats and the history
\* already include the result it was given, and the in-progress mark, set
\* before the scan, is still set.
C20_CallbackSeesItsResult ==
    \A t \in Threads : InCallback(t) =>
        /\ scanning_in_progress
        /\ stats.total_scans >= 1 /\ stats.last_scan_time >= thr[t].result.scan_time
        /\ \E i \in 1..Len(history) : history[i] = thr[t].result

\* C21: when an iteration of the periodic activity raises, the handler adds
\* one to failed_scans, clears the in-progress mark and sleeps a full
\* interval before the next loop test; it leaves is_running and stopping
\* alone, so the session goes on.
C21_FailedIterationIsCountedAndLoopGoesOn ==
    [][\A t \in Threads : thr[t].pc = "except" /\ thr'[t].pc # "except" =>
          /\ stats'.failed_scans = stats.failed_scans + 1
          /\ ~scanning_in_progress'
          /\ thr'[t] = Thread("sleep", NoResult, Interval)
          /\ UNCHANGED <<is_running, stopping, history, current_result>>]_vars

\* C21 witness: a callback raised in a running monitor, the iteration was
\* counted as failed and its thread went on to the next loop test
C21_Witness ==
    /\ is_running /\ ~stopping /\ ~scanning_in_progress
    /\ stats.failed_scans > stats.total_scans
    /\ \E t \in Threads : thr[t].pc = "check" /\ t = monitor_thread

\* C22: after a completed scan that took elapsed seconds the activity sleeps
\* exactly max(0, interval - elapsed): between 0 and the interval, and not at
\* all when elapsed >= interval, where it goes straight to the next loop test.
C22_WaitIsIntervalMinusElapsed ==
    [][\A t \in Threads : thr[t].pc = "clear" /\ thr'[t].pc # "clear" =>
          LET elapsed == thr[t].scan_duration
          IN IF elapsed >= Interval
             THEN thr'[t].pc = "loop"
             ELSE /\ thr'[t].pc = "sleep"
                  /\ thr'[t].wait = Interval - elapsed
                  /\ thr'[t].wait > 0 /\ thr'[t].wait <= Interval]_vars

\* C22 witness: the first activity finished an iteration whose scan took at
\* least the interval and stands at the loop test without having slept
C22_Witness ==
    /\ thr[1].pc = "loop" /\ Len(hlog) = 1 /\ Len(history) = 1 /\ ~scanning_in_progress
    /\ \A t \in Threads \ {1} : thr[t].pc = "unborn"

\* the model starts no scan after the MaxScans-th: a thread that stands before
\* its scan then is held by the bound, not by the program
HeldByBound == clock = MaxScans /\ \E t \in Threads : thr[t].pc = "mark"

\* C23: once the stop flag is set, every periodic activity eventually exits,
\* unless a new start() clears the flag first.
C23_StoppedActivityExits ==
    stopping ~> ((\A t \in Threads : ~Alive(t)) \/ ~stopping \/ HeldByBound)

\* C23 witness: stop() was called during a scan, and the activity has exited
C23_Witness ==
    /\ stopping /\ ~is_running /\ thr[1].pc = "done" /\ Len(hlog) = 1
    /\ \A t \in Threads \ {1} : thr[t].pc = "unborn"

\* C24: a stop signal that arrives while the first one is being honoured (the
\* display loop has ended, start_monitoring has not returned) is counted as
\* the second one and ends the program.
C24_SecondSignalTerminates ==
    last = "interrupt" => caller.pc = "exited" /\ caller.ctrl_c_count = 2

\* C25: the hop parsed from a line '<hop_number> <rest>' with a valid hop
\* number is decided by the first case that matches the rest: "*" or the
\* word timeout; a leading "..."; an IPv4-looking substring, with or without
\* an RTT; nothing of these.
C25_HopIsDecidedByFirstMatchingCase ==
    IsParsed(pres) /\ req.line.n >= 1 =>
        LET rest == req.line.info
            hop == pres.parsed
        IN /\ IsHop(hop) /\ hop.hop_number = req.line.n
           /\ IF rest.raw = "*" \/ rest.timeoutWord
              THEN hop.status = "timeout" /\ hop.ip_address = "*" /\ hop.rtt_ms = NoneRtt
              ELSE IF rest.ellipsis
              THEN /\ hop.status = "timeout" /\ hop.ip_address = "*" /\ hop.rtt_ms = NoneRtt
                   /\ hop.hostname = IF rest.endHop # -1
                                     THEN "No response (hops " \o ToString(req.line.n)
                                              \o "-" \o ToString(rest.endHop) \o ")"
                                     ELSE "No response"
              ELSE IF rest.ip # ""
              THEN /\ hop.ip_address = rest.ip /\ hop.rtt_ms = rest.rtt
                   /\ hop.status = IF rest.rtt # NoneRtt THEN "success" ELSE "unknown"
              ELSE /\ hop.status = "timeout" /\ hop.ip_address = "*"
                   /\ hop.hostname = "No response" /\ hop.rtt_ms = NoneRtt

\* C25 witness: "1   1 ms 192.168.1.1" gave {1, 192.168.1.1, 1, success}
C25_Witness ==
    /\ IsParsed(pres)
    /\ req.line = HopLine(1, Info("text", FALSE, FALSE, -1, "192.168.1.1", 1, NoneStr))
    /\ pres.parsed = HopData(1, "192.168.1.1", NoneStr, 1, "success")

\* the lines from which the fallback parse is said to collect hops: those
\* after the first header line and before the first blank line or line
\* beginning with 'Nmap' that follows it
IsHeader(line) == line.k \in {"TRACEROUTE", "HOP RTT"}
IsTerminator(line) == line.k \in {"blank", "Nmap"}
FirstIndex(lines, from, P(_)) ==
    IF \E i \in from..Len(lines) : P(lines[i])
    THEN CHOOSE i \in from..Len(lines) : P(lines[i]) /\ \A j \in from..(i - 1) : ~P(lines[j])
    ELSE Len(lines) + 1
HopSection(lines) ==
    LET h == FirstIndex(lines, 1, IsHeader)
        e == FirstIndex(lines, h + 1, IsTerminator)
    IN SubSeq(lines, h + 1, e - 1)

\* C26: the fallback parse returns the hops of the lines between the header
\* line and the first following blank line or 'Nmap' line, and of no line
\* after that terminator.
C26_NoHopAfterTerminator ==
    IsAlt(pres) =>
        pres.alt = CollectHops(SelectSeq(HopSection(output), LAMBDA l : ~IsHeader(l)), <<>>)

C29_HistoryWithinTotalScans ==
    (\A t \in Threads : BetweenIterations(t)) => Len(history) <= stats.total_scans

\* C30: the argument vector built by build_command differs from the one built
\* from the same target, ports, protocol and verbose with any other max_hops.
C30_MaxHopsReachesCommand ==
    IsCommand(pres) =>
        \A max_hops \in (1..MaxHops) \ {req.max_hops} :
            BuildCommand(DefaultTimeout, req.target, req.ports, req.protocol,
                         max_hops, req.verbose) # pres

====
